---- MODULE Spec2Model ----
(***************************************************************************)
(* Model of src/utils.py: the analytic pricers, the GBM path generator and *)
(* the four Monte Carlo / hedging engines.                                 *)
(*                                                                         *)
(* Numbers.  A float is modelled as a binary floating-point number         *)
(* <<m, e>> = m * 2^e with the exponent range of binary64 (overflow to     *)
(* inf at 2^1024, gradual underflow to 0 below 2^-1074).  The width of the *)
(* significand, 53 bits in binary64, is a bound of the model,              *)
(* MantissaBits: the product of two significands has to fit the 32-bit     *)
(* integers of TLC, so that 15 bits is the widest the arithmetic below     *)
(* carries.  +inf, -inf and NaN are <<1, S>>,                              *)
(* <<-1, S>>, <<0, S>> with S = Special.  +, -, *, / and sqrt round to     *)
(* nearest, ties to even, and follow the IEEE rules for the special values *)
(* (x/0 = +-inf, 0/0 = inf-inf = 0*inf = NaN, NaN absorbing and unequal to *)
(* everything) and for the two zeros, +0.0 = <<0, 0>> and -0.0 = <<0, -1>> *)
(* (equal, but 1/+0.0 = inf and 1/-0.0 = -inf).  Every value agrees with   *)
(* the code's to the precision of the short significand (a few units of    *)
(* 2^-MantissaBits), two computations the code rounds differently may      *)
(* differ by as much here, and a comparison the code decides by less than  *)
(* that may go the other way.                                              *)
(* The rounding residue of tau = t - (i+1)*dt in the last pass of the      *)
(* hedging loop, which is 0 or +-2^-53 in binary64 depending on t and      *)
(* n_steps, is a choice of that pass, rnd.                                 *)
(*                                                                         *)
(* Python and numpy.  A value of numpy (an entry of an array, a            *)
(* np.float64) is written <<x>>, a bare float is a Python float: x/0.0     *)
(* and an overflowing x**2 raise on Python floats and give inf or nan on   *)
(* numpy values.                                                           *)
(*                                                                         *)
(* Library functions.  np.exp is e^x by argument reduction and a Taylor    *)
(* polynomial, np.log is ln by 2*atanh((y-1)/(y+1)), np.sqrt is the        *)
(* correctly rounded root, ** is the product for the exponents 1..4 and    *)
(* 2^(p*log2(x)) otherwise, with log2 and the product carried to 30 bits,  *)
(* and scipy's norm.cdf is the series of Phi about 0 for |x| <= 1 and      *)
(* erfc(x/sqrt(2))/2 by a Chebyshev fit beyond; each is accurate to the    *)
(* precision of the format, the tails of norm.cdf in relative terms.       *)
(***************************************************************************)
EXTENDS Integers, Sequences, FiniteSets, TLC

\* ------------------------------------------------------------------ bounds
MaxSims == 1
MaxSteps == 2
\* Bits of the significand of a float, at most 15.
MantissaBits == 14

\* ----------------------------------------------------------------- numbers
\* The exponent range of binary64.
MinExp == -1074
MaxExp == 1024
Special == 9999

Abs(x) == IF x < 0 THEN -x ELSE x
Sgn(x) == IF x < 0 THEN -1 ELSE IF x > 0 THEN 1 ELSE 0
Max(x, y) == IF x >= y THEN x ELSE y
Min(x, y) == IF x <= y THEN x ELSE y

\* The element of a singleton.  The arithmetic below binds its arguments
\* through it, so that each argument is evaluated once where it is used.
Once(X) == CHOOSE v \in X : TRUE

NaN == <<0, Special>>
PosInf == <<1, Special>>
NegInf == <<-1, Special>>
\* +0.0 and -0.0
Zero == <<0, 0>>
NegZero == <<0, -1>>

IsNaN(a) == a = NaN
IsInf(a) == a = PosInf \/ a = NegInf
IsFinite(a) == a[2] # Special
IsZero(a) == a = Zero \/ a = NegZero

\* The sign bit as -1 or 1: -1 for the negative numbers, -0.0 and -inf.
SignOf(a) == IF a[1] < 0 \/ a = NegZero THEN -1 ELSE 1
SignedZero(s) == IF s < 0 THEN NegZero ELSE Zero
SignedInf(s) == IF s < 0 THEN NegInf ELSE PosInf

\* Number of bits of n, 0 <= n < 2^31.
BitLen4(n) == IF n = 0 THEN 0 ELSE IF n < 2 THEN 1 ELSE IF n < 4 THEN 2
              ELSE IF n < 8 THEN 3 ELSE 4
BitLen8(n) == IF n < 16 THEN BitLen4(n) ELSE 4 + BitLen4(n \div 16)
BitLen16(n) == IF n < 256 THEN BitLen8(n) ELSE 8 + BitLen8(n \div 256)
BitLen(n) == IF n < 65536 THEN BitLen16(n) ELSE 16 + BitLen16(n \div 65536)

\* The float m * 2^e, or the infinity of its sign when it is out of range.
Pack(m, e) ==
    IF e > MaxExp - MantissaBits THEN <<Sgn(m), Special>> ELSE <<m, e>>

\* q * 2^e with the remainder rem of the division by 2^s rounded away:
\* to nearest, ties to even.
RoundBits(sign, q, rem, s, e) ==
    Once({IF r = 2^MantissaBits
          THEN Pack(sign * 2^(MantissaBits - 1), e + 1)
          ELSE IF r = 0 THEN SignedZero(sign) ELSE Pack(sign * r, e) :
            r \in {IF rem > 2^(s - 1) \/ (rem = 2^(s - 1) /\ q % 2 = 1)
                   THEN q + 1 ELSE q}})

\* The float nearest to n * 2^e (n an integer, |n| < 2^31); a non-zero n
\* that underflows keeps its sign, and n = 0 is +0.0.
RoundShift(n, e, b, s) ==
    IF s <= 0
    THEN Once({Pack(n * 2^up, e - up) : up \in {Min(MantissaBits - b, e - MinExp)}})
    ELSE IF s > b \/ s > 30 THEN SignedZero(n)
    ELSE RoundBits(Sgn(n), Abs(n) \div 2^s, Abs(n) % 2^s, s, e + s)
RoundOf(n, e) ==
    IF n = 0 THEN Zero
    ELSE Once({RoundShift(n, e, b, Max(b - MantissaBits, MinExp - e)) :
                 b \in {BitLen(Abs(n))}})
Round(n0, e0) == Once({RoundOf(n, e) : n \in {n0}, e \in {e0}})

Num(k) == Round(k, 0)

VNegOf(a) ==
    IF a = Zero THEN NegZero ELSE IF a = NegZero THEN Zero ELSE <<-a[1], a[2]>>
VNeg(a0) == Once({VNegOf(a) : a \in {a0}})

VAddOf(a, b) ==
    IF IsNaN(a) \/ IsNaN(b) THEN NaN
    ELSE IF IsInf(a) THEN (IF IsInf(b) /\ a # b THEN NaN ELSE a)
    ELSE IF IsInf(b) THEN b
    ELSE IF a[1] = 0 THEN (IF b = NegZero /\ a = Zero THEN Zero ELSE b)
    ELSE IF b[1] = 0 THEN a
    ELSE IF b[2] - a[2] > MantissaBits + 1 THEN b
    ELSE IF a[2] - b[2] > MantissaBits + 1 THEN a
    ELSE Once({Round(a[1] * 2^(a[2] - e) + b[1] * 2^(b[2] - e), e) :
                 e \in {Min(a[2], b[2])}})
VAdd(a0, b0) == Once({VAddOf(a, b) : a \in {a0}, b \in {b0}})

VSub(a, b) == VAdd(a, VNeg(b))

VMulOf(a, b) ==
    IF IsNaN(a) \/ IsNaN(b) THEN NaN
    ELSE IF IsInf(a) \/ IsInf(b)
    THEN (IF a[1] = 0 \/ b[1] = 0 THEN NaN ELSE SignedInf(SignOf(a) * SignOf(b)))
    ELSE IF a[1] = 0 \/ b[1] = 0 THEN SignedZero(SignOf(a) * SignOf(b))
    ELSE Round(a[1] * b[1], a[2] + b[2])
VMul(a0, b0) == Once({VMulOf(a, b) : a \in {a0}, b \in {b0}})

\* a / b for finite non-zero a and b, from n = |a[1]| * 2^up of MantissaBits
\* bits more than b[1]: the quotient, two bits more of it and a sticky bit,
\* rounded.
QuotientRound(sign, q, r, d, e) ==
    Round(sign * (2 * (4 * q + (4 * r) \div d) + (IF (4 * r) % d = 0 THEN 0 ELSE 1)),
          e - 3)
QuotientBits(a, b, up) ==
    Once({QuotientRound(Sgn(a[1]) * Sgn(b[1]), n \div d, n % d, d, a[2] - b[2] - up) :
            n \in {Abs(a[1]) * 2^up}, d \in {Abs(b[1])}})
Quotient(a, b) ==
    QuotientBits(a, b, MantissaBits - BitLen(Abs(a[1])) + BitLen(Abs(b[1])))

VDivOf(a, b) ==
    IF IsNaN(a) \/ IsNaN(b) THEN NaN
    ELSE IF IsInf(a) THEN (IF IsInf(b) THEN NaN ELSE SignedInf(SignOf(a) * SignOf(b)))
    ELSE IF IsInf(b) THEN SignedZero(SignOf(a) * SignOf(b))
    ELSE IF b[1] = 0 THEN (IF a[1] = 0 THEN NaN ELSE SignedInf(SignOf(a) * SignOf(b)))
    ELSE IF a[1] = 0 THEN SignedZero(SignOf(a) * SignOf(b))
    ELSE Quotient(a, b)
VDiv(a0, b0) == Once({VDivOf(a, b) : a \in {a0}, b \in {b0}})

Rat(n, d) == VDiv(Num(n), Num(d))

\* a < b, a == b as floats compare: false on NaN, and -0.0 == +0.0.
VLt(a, b) == VSub(a, b)[1] < 0
VEqOf(a, b) == ~IsNaN(a) /\ (a = b \/ (IsZero(a) /\ IsZero(b)))
VAbs(a) == IF SignOf(a) < 0 THEN VNeg(a) ELSE a
VEq(a0, b0) == Once({VEqOf(a, b) : a \in {a0}, b \in {b0}})

\* np.maximum(x, 0): x for x >= 0, either zero included.
Maximum0Of(x) == IF IsNaN(x) THEN NaN ELSE IF x[1] < 0 THEN Zero ELSE x
Maximum0(x0) == Once({Maximum0Of(x) : x \in {x0}})

\* v * 2^k
ScaleOf(v, k) == IF IsFinite(v) /\ v[1] # 0 THEN Round(v[1], v[2] + k) ELSE v
Scale(v0, k0) == Once({ScaleOf(v, k) : v \in {v0}, k \in {k0}})

\* The integer nearest to a finite v, |v| < 2^30.
NearestOf(v) ==
    IF v[2] >= 0 THEN v[1] * 2^v[2]
    ELSE IF -v[2] > 30 THEN 0
    ELSE Sgn(v[1]) * ((Abs(v[1]) + 2^(-v[2] - 1)) \div 2^(-v[2]))
Nearest(v0) == Once({NearestOf(v) : v \in {v0}})

\* 1, 1/2 and the constants of the library functions, each given as
\* n * 2^e with n of 30 bits and rounded to MantissaBits bits.
Const(n, e) ==
    <<Sgn(n) * ((Abs(n) + 2^(29 - MantissaBits)) \div 2^(30 - MantissaBits)),
      e + 30 - MantissaBits>>
One == Const(536870912, -29)
Half == Const(536870912, -30)
\* ln(2) = 0.693147
Ln2 == Const(744261118, -30)
\* sqrt(2) = 1.41421
Sqrt2 == Const(759250125, -29)
\* 1/sqrt(2*pi) = 0.398942
InvSqrt2Pi == Const(856722024, -31)
\* 1/(2*sqrt(2)) = 0.353553
InvSqrt8 == Const(759250125, -31)
\* e^q is inf or 0 beyond |q| = 1024
ExpRange == Const(536870912, -19)
\* (-1)^n / (n! * 2^n * (2n+1)), n = 0..7: the series of
\* (Phi(x) - 1/2) * sqrt(2*pi) / x in powers of x^2
CdfCoeff == <<One, Const(-715827883, -32), Const(858993459, -35),
              Const(-818089009, -38), Const(636291451, -41),
              Const(-832963354, -45), Const(939753528, -49),
              Const(-930803494, -53)>>
\* -1.26551223, 1.00002368, 0.37409196, 0.09678418, -0.18628806, 0.27886807,
\* -1.13520398, 1.48851587, -0.82215223, 0.17087277: the Chebyshev fit of
\* ln(erfc(z) / s) + z^2 in powers of s = 1/(1 + z/2)
ErfcCoeff == <<Const(-679416705, -29), Const(536883625, -29),
               Const(803356367, -31), Const(831369776, -33),
               Const(-800101125, -32), Const(598864620, -31),
               Const(-609457996, -29), Const(799140873, -29),
               Const(-882779235, -30), Const(733892959, -32)>>
\* Phi(-x) is 0 and Phi(x) is 1 beyond x = 40
CdfCutoff == Const(671088640, -24)

\* c[k] + c[k+1]*x + ... + c[Len(c)]*x^(Len(c)-k), by Horner's rule.
RECURSIVE Horner(_, _, _)
HornerOf(c, x, k) ==
    IF k = Len(c) THEN c[k] ELSE VAdd(c[k], VMul(x, Horner(c, x, k + 1)))
Horner(c0, x0, k0) == Once({HornerOf(c, x, k) : c \in {c0}, x \in {x0}, k \in {k0}})

\* 1/k!, k = 0..6: the Taylor polynomial of e^r, for |r| <= ln(2)/2.
ExpCoeff == <<One, One, Half, Const(715827883, -32), Const(715827883, -34),
              Const(572662306, -36), Const(763549742, -39)>>

\* q - k*ln(2) for the k nearest to q/ln(2), |q| <= 1024, in units of 2^-31:
\* ln(2) = 726817 * 2^-20 + 1020 * 2^-31, and q - k * 726817 * 2^-20 is
\* exact.
ExpReduce(q, k) ==
    IF k = 0 THEN q
    ELSE Round((q[1] * 2^(q[2] + 20) - k * 726817) * 2^11 - k * 1020, -31)

\* np.exp: e^q = 2^k * e^r with q = k*ln(2) + r, which is inf above 709.78
\* and 0 below -745.13 by the exponent range.
ExpOf(q) ==
    IF IsNaN(q) THEN NaN
    ELSE IF VLt(ExpRange, q) THEN PosInf
    ELSE IF VLt(q, VNeg(ExpRange)) THEN Zero
    ELSE Once({Scale(Horner(ExpCoeff, ExpReduce(q, k), 1), k) :
                 k \in {Nearest(VDiv(q, Ln2))}})
Exp(q0) == Once({ExpOf(q) : q \in {q0}})

\* 1/k, k = 1, 3, .., 9: atanh(z)/z as a polynomial in z*z.
LogCoeff == <<One, Const(715827883, -31), Const(858993459, -32),
              Const(613566757, -32), Const(954437177, -33)>>

\* ln(y) for y in [sqrt(1/2), sqrt(2)): 2*atanh(z), z = (y-1)/(y+1).
LogSmallOf(y) ==
    Once({VMul(Scale(z, 1), Horner(LogCoeff, VMul(z, z), 1)) :
            z \in {VDiv(VSub(y, One), VAdd(y, One))}})
LogSmall(y0) == Once({LogSmallOf(y) : y \in {y0}})

\* The exponent k with v * 2^(-k) in [sqrt(1/2), sqrt(2)), v finite and > 0.
LogExponentOf(v) ==
    Once({IF VLt(Scale(v, -k), Sqrt2) THEN k ELSE k + 1 :
            k \in {v[2] + BitLen(v[1]) - 1}})
LogExponent(v0) == Once({LogExponentOf(v) : v \in {v0}})

\* np.log: -inf at 0, nan below; ln(v) = k*ln(2) + ln(v * 2^(-k)).
LogOf(v) ==
    IF IsNaN(v) \/ v[1] < 0 THEN NaN
    ELSE IF v = PosInf THEN PosInf
    ELSE IF v[1] = 0 THEN NegInf
    ELSE Once({VAdd(VMul(Num(k), Ln2), LogSmall(Scale(v, -k))) : k \in {LogExponent(v)}})
Log(v0) == Once({LogOf(v) : v \in {v0}})

\* The integer square root of n >= 1, by Newton's iteration from above.
RECURSIVE ISqrtFrom(_, _)
ISqrtStep(n, x, y) == IF y >= x THEN x ELSE ISqrtFrom(n, y)
ISqrtFromOf(n, x) == ISqrtStep(n, x, (x + n \div x) \div 2)
ISqrtFrom(n0, x0) == Once({ISqrtFromOf(n, x) : n \in {n0}, x \in {x0}})

\* sqrt(n * 2^e), e even, n of 2*MantissaBits - 1 or 2*MantissaBits bits:
\* the root of n, one bit more of it and a sticky bit, rounded.
SqrtRound(n, e, root) ==
    Round(IF n - root * root > root THEN 4 * root + 3
          ELSE 4 * root + (IF root * root = n THEN 0 ELSE 1),
          e \div 2 - 2)
SqrtBits(n, e) ==
    Once({SqrtRound(n, e, root) : root \in {ISqrtFrom(n, 2^MantissaBits)}})
SqrtNormal(m, e, b) ==
    Once({SqrtBits(m * 2^up, e - up) :
            up \in {IF (e - (2 * MantissaBits - b)) % 2 = 0
                    THEN 2 * MantissaBits - b ELSE 2 * MantissaBits - 1 - b}})

\* np.sqrt: correctly rounded; nan below 0, and sqrt(-0.0) = -0.0.
SqrtOf(v) ==
    IF IsNaN(v) \/ v[1] < 0 THEN NaN
    ELSE IF v = PosInf THEN PosInf
    ELSE IF v[1] = 0 THEN v
    ELSE SqrtNormal(v[1], v[2], BitLen(v[1]))
Sqrt(v0) == Once({SqrtOf(v) : v \in {v0}})

\* Whether a finite p is an integer, and an odd one.
IsInteger(p) ==
    p[2] >= 0 \/ (-p[2] < MantissaBits /\ p[1] % 2^(-p[2]) = 0)
IsOdd(p) ==
    IF p[2] > 0 THEN FALSE
    ELSE IF p[2] = 0 THEN Abs(p[1]) % 2 = 1
    ELSE IsInteger(p) /\ (Abs(p[1]) \div 2^(-p[2])) % 2 = 1

\* x^n for an integer n >= 1, by squaring.
RECURSIVE IntPower(_, _)
IntPowerOf(x, n) ==
    Once({IF n = 1 THEN x
          ELSE IF n % 2 = 0 THEN rest
          ELSE VMul(x, rest) :
            rest \in {IF n = 1 THEN x ELSE IntPower(VMul(x, x), n \div 2)}})
IntPower(x0, n0) == Once({IntPowerOf(x, n) : x \in {x0}, n \in {n0}})

\* The powers computed as products: p = 1, .., IntPowerMax.
IntPowerMax == 4
IsSmallInteger(p) ==
    IsInteger(p) /\ p[1] > 0 /\ p[2] <= 0 /\ Nearest(p) <= IntPowerMax

\* Fixed point of WideBits bits in two limbs: the integer n stands for
\* n * 2^-WideBits.
LimbBits == 15
WideBits == 2 * LimbBits
Limb == 2^LimbBits

\* a * b for 0 <= a < 2^29 and 0 <= b < 2^31, to three units.
MulFixOf(a, b) ==
    (a \div Limb) * (b \div Limb) + ((a \div Limb) * (b % Limb)) \div Limb
                                  + ((a % Limb) * (b \div Limb)) \div Limb
MulFix(a0, b0) == Once({MulFixOf(a, b) : a \in {a0}, b \in {b0}})

\* n / d for 0 <= 5 * n < d < 2^16, by long division, a limb at a time.
WideRatio(n, d) ==
    ((n * Limb) \div d) * Limb + (((n * Limb) % d) * Limb) \div d

\* 1/k, k = 3, 5, .., 11: atanh(z)/z - 1 as a polynomial in z*z, without
\* its constant term.
AtanhCoeff == <<357913941, 214748365, 153391689, 119304647, 97612893>>
\* 1/ln(2) = 1.442695
InvLn2Wide == 1549082005

\* x * (c[j] + x * (c[j+1] + ...)) in fixed point.
RECURSIVE WideHorner(_, _, _)
WideHornerOf(c, x, j) ==
    MulFix(x, c[j] + (IF j = Len(c) THEN 0 ELSE WideHorner(c, x, j + 1)))
WideHorner(c0, x0, j0) ==
    Once({WideHornerOf(c, x, j) : c \in {c0}, x \in {x0}, j \in {j0}})

\* 2^sh * 2*atanh(z)/ln(2), from 2^sh * z < 1/5.
Log2Magnitude(z, sh) ==
    MulFix(2 * (z + MulFix(z, WideHorner(AtanhCoeff,
                                         IF sh > LimbBits THEN 0
                                         ELSE MulFix(z, z) \div 2^(2 * sh), 1))),
           InvLn2Wide)

\* 2^sh * log2(y) for a float y = m/one in [sqrt(1/2), sqrt(2)), in fixed
\* point, from z = (y-1)/(y+1) = n/d; 1/2 in magnitude where 2^sh * z is
\* 1/5 or more.
Log2WideOf(n, d, sh) ==
    IF n = 0 THEN 0
    ELSE IF BitLen(Abs(n)) + sh > LimbBits + 1 \/ 5 * Abs(n) * 2^sh >= d
    THEN Sgn(n) * 2^(WideBits - 1)
    ELSE Sgn(n) * Log2Magnitude(WideRatio(Abs(n) * 2^sh, d), sh)
Log2Wide(y0, sh0) ==
    Once({Log2WideOf(y[1] - 2^(-y[2]), y[1] + 2^(-y[2]), sh) : y \in {y0}, sh \in {sh0}})

\* n * 2^e as <<N, f>>, N the nearest integer and f the float n * 2^e - N;
\* N is 2^cap in magnitude where |n * 2^e| >= 2^cap.
SplitOf(n, e, cap) ==
    IF e >= 0
    THEN <<(IF BitLen(Abs(n)) + e > cap THEN Sgn(n) * 2^cap ELSE n * 2^e), Zero>>
    ELSE IF -e > 30 THEN <<0, Round(n, e)>>
    ELSE Once({<<N, Round(n - N * 2^(-e), e)>> : N \in {(n + 2^(-e - 1)) \div 2^(-e)}})
Split(n0, e0, cap) == Once({SplitOf(n, e, cap) : n \in {n0}, e \in {e0}})

\* x ** p = 2^(p*k) * 2^(p*log2(y)) for x = 2^k * y and
\* l = 2^sh * log2(y), 2^sh being what p = p[1] * 2^p[2] has of a power of
\* two above 1: the two products split in an integer and a rest, and the
\* rests exponentiated.
PowerWideOf(p, k, l, sh) ==
    Once({Scale(Exp(VMul(VAdd(a[2], c[2]), Ln2)), a[1] + c[1]) :
            a \in {Split(p[1] * k, p[2], 24)},
            c \in {Split(p[1] * (l \div Limb) + (p[1] * (l % Limb)) \div Limb,
                         p[2] - sh - LimbBits, 22)}})
PowerWide(x, p, k0) ==
    Once({PowerWideOf(p, k, Log2Wide(Scale(x, -k), sh), sh) :
            k \in {k0}, sh \in {Max(p[2], 0)}})

\* x ** p for a finite x > 0 and a finite p # 0.
PowerAbs(x, p) ==
    IF IsSmallInteger(p) THEN IntPower(x, Nearest(p))
    ELSE PowerWide(x, p, LogExponent(x))

\* x ** p of numpy, the pow of C: 1 for p = +-0 and for x = 1, nan or not;
\* (-1) ** +-inf = 1; an infinite p sends |x| < 1 and |x| > 1 to 0 and inf;
\* a zero or infinite x gives a zero or an infinity, of the sign of x for
\* an odd p; a negative x has a power for an integer p only.
PowerOf(x, p) ==
    IF IsZero(p) \/ x = One THEN One
    ELSE IF IsNaN(x) \/ IsNaN(p) THEN NaN
    ELSE IF IsInf(p)
    THEN (IF x = VNeg(One) THEN One
          ELSE IF VLt(VAbs(x), One) = (p = PosInf) THEN Zero ELSE PosInf)
    ELSE IF IsZero(x) \/ IsInf(x)
    THEN (IF IsZero(x) = (p[1] > 0)
          THEN SignedZero(IF IsOdd(p) THEN SignOf(x) ELSE 1)
          ELSE SignedInf(IF IsOdd(p) THEN SignOf(x) ELSE 1))
    ELSE IF x[1] < 0 /\ ~IsInteger(p) THEN NaN
    ELSE Once({IF x[1] < 0 /\ IsOdd(p) THEN VNeg(y) ELSE y :
                 y \in {PowerAbs(VAbs(x), p)}})
Power(x0, p0) == Once({PowerOf(x, p) : x \in {x0}, p \in {p0}})

\* x*x as the sum of its rounding and the rest, which is exact.
SquareSplit(x) ==
    Once({<<hi, Round(x[1] * x[1] - hi[1] * 2^(hi[2] - 2 * x[2]), 2 * x[2])>> :
            hi \in {VMul(x, x)}})

\* The upper tail 1 - Phi(x) = erfc(x/sqrt(2))/2 for 1 < x <= 40, as
\* s * exp(-x^2/2 + P(s)) / 2 with s = 1/(1 + x/sqrt(8)); relative error
\* below 1.2e-7 before rounding.
NormTailOf(x) ==
    Once({VMul(VMul(VMul(Half, s), Exp(VNeg(VMul(sq[1], Half)))),
               Exp(VSub(Horner(ErfcCoeff, s, 1), VMul(sq[2], Half)))) :
            s \in {VDiv(One, VAdd(One, VMul(InvSqrt8, x)))},
            sq \in {SquareSplit(x)}})
NormTail(x0) == Once({NormTailOf(x) : x \in {x0}})

\* scipy.stats.norm.cdf: Phi(x) = 1/2 + x*phi(0)*(1 - x^2/6 + ...) for
\* |x| <= 1, beyond that 1 - tail(x) for x > 0 and tail(-x) for x < 0.
NormCdfOf(x) ==
    IF IsNaN(x) THEN NaN
    ELSE IF ~VLt(One, VAbs(x))
    THEN VAdd(Half, VMul(VMul(x, InvSqrt2Pi), Horner(CdfCoeff, VMul(x, x), 1)))
    ELSE IF VLt(CdfCutoff, VAbs(x)) THEN (IF x[1] > 0 THEN One ELSE Zero)
    ELSE Once({IF x[1] > 0 THEN VSub(One, tail) ELSE tail :
                 tail \in {NormTail(VAbs(x))}})
NormCdf(x0) == Once({NormCdfOf(x) : x \in {x0}})

\* ------------------------------------------------------------------ inputs
OptionTypes == {"call", "put", "straddle"}
ValidTypes == {"call", "put"}
Pricers == {"bs_price", "bs_delta", "gao_price", "gao_delta"}
SFEngines == {"mc_eur_sf_hedged", "mc_asian_sf_hedged"}
Engines == {"monte_carlo_european", "monte_carlo_asian"} \cup SFEngines
Functions == Pricers \cup Engines \cup {"GBM_paths"}

\* The standard-normal draws, kept on a lattice of two values.
NoiseVals == {Num(-1), Num(1)}
\* Rounding residue of t - n_steps*(t/n_steps) in binary64, in units of
\* 2^-53: negative for t = 0.7, n_steps = 35; zero for t = 1, n_steps = 4;
\* positive for t = 1, n_steps = 49.
Residues == {-1, 0, 1}
Ulp == Scale(Num(1), -53)

S0Val == Num(100)
KVals == {Num(100), Num(110)}
\* A volatility whose square is beyond the floats.
HugeSigma == Scale(One, 600)
RVals == {Zero, Rat(1, 16)}
MuVal == Rat(1, 8)
SigmaVal == Rat(1, 4)
PremiumVal == Num(5)

\* t such that dt = t/n_steps is u for n_steps >= 1.
TOf(u, n) == Num(u * (IF n >= 1 THEN n ELSE 1))

\* The parameters of a call; return_distribution is a parameter of
\* monte_carlo_european and monte_carlo_asian only (default True), and is
\* explored as False for n_hedges, n_steps <= 1, which takes both returns
\* of monte_carlo_european (lines 217, 242) and that of monte_carlo_asian.
Args(S0, K, sigma, t, r, mu, premium, n_sims, n_steps, geometric, rd, ot) ==
    [S0 |-> S0, K |-> K, sigma |-> sigma, t |-> t, r |-> r, mu |-> mu,
     premium |-> premium, n_sims |-> n_sims, n_steps |-> n_steps,
     geometric |-> geometric, return_distribution |-> rd, option_type |-> ot]

\* The n_sims explored for an engine: the unhedged European call takes one
\* path more, so that its standard error is taken over paths that differ.
SimsOf(f, n) == 1..(IF f = "monte_carlo_european" /\ n = 0 THEN MaxSims + 1 ELSE MaxSims)

\* The calls explored, per function.
Calls(f) ==
    IF f \in Pricers THEN
        UNION {{Args(S0Val, K, s, t, r, MuVal, PremiumVal, 1, 1, FALSE, TRUE, ot) :
                    K \in KVals \cup {Zero}, r \in RVals, ot \in OptionTypes} :
               s \in {Rat(-1, 4), SigmaVal, HugeSigma}, t \in {Zero, Num(1)}}
    ELSE IF f = "GBM_paths" THEN
        UNION {{Args(S0Val, Num(100), s, TOf(u, n), Rat(1, 16), MuVal, PremiumVal,
                     m, n, FALSE, TRUE, "call") :
                    s \in {Rat(-1, 4), Zero, Rat(1, 4), Num(40), HugeSigma}, u \in {-1, 0, 1},
                    m \in -1..MaxSims} :
               n \in -1..MaxSteps}
    ELSE
        UNION {{Args(S0Val, K, SigmaVal, TOf(1, n), Rat(1, 16), MuVal, PremiumVal,
                     m, n, g, rd, ot) :
                    K \in (IF f \in SFEngines THEN {S0Val} ELSE KVals)
                            \cup (IF n = 1 THEN {Zero} ELSE {}),
                    m \in SimsOf(f, n), ot \in OptionTypes,
                    g \in (IF f \in {"monte_carlo_asian", "mc_asian_sf_hedged"}
                           THEN BOOLEAN ELSE {FALSE}),
                    rd \in (IF f \in SFEngines \/ n > 1 THEN {TRUE} ELSE BOOLEAN)} :
               n \in 0..MaxSteps}

\* ------------------------------------------------------- analytic pricers
Return(v) == [err |-> "none", val |-> v]
Raise(e) == [err |-> e, val |-> NaN]

\* A value of numpy, an entry of an array or a np.float64, is <<x>>; a
\* bare float is a Python float.
Np(x) == <<x>>
IsNp(x) == Len(x) = 1
Item(x) == IF IsNp(x) THEN x[1] ELSE x

\* S0/K: a ZeroDivisionError between Python floats, inf or nan in numpy.
RatioOf(S0, K) ==
    IF ~IsNp(S0) /\ ~IsNp(K) /\ IsZero(K) THEN Raise("ZeroDivisionError")
    ELSE Return(VDiv(Item(S0), Item(K)))
Ratio(S0, K0) == Once({RatioOf(S, K) : S \in {S0}, K \in {K0}})

\* sigma**2: an OverflowError on a Python float whose square is beyond the
\* floats, inf in numpy.
SqOf(x) ==
    IF ~IsNp(x) /\ IsFinite(x) /\ IsInf(VMul(x, x)) THEN Raise("OverflowError")
    ELSE Return(VMul(Item(x), Item(x)))
Sq(x0) == Once({SqOf(x) : x \in {x0}})

\* d1 of bs_price and bs_delta (lines 24, 50), or what S0/K and then
\* sigma**2 raise.
bs_d1(S0, K, sigma, t, r) ==
    Once({IF q.err # "none" THEN q
          ELSE IF sq.err # "none" THEN sq
          ELSE Return(VDiv(VAdd(Log(q.val), VMul(VAdd(r, VMul(Half, sq.val)), Item(t))),
                           VMul(Item(sigma), Sqrt(Item(t))))) :
            q \in {Ratio(S0, K)}, sq \in {Sq(sigma)}})

bs_price(S0, K, sigma, t, r, option_type) ==
    Once({IF d.err # "none" THEN d
          ELSE LET d1 == d.val
                   d2 == VSub(d1, VMul(Item(sigma), Sqrt(Item(t))))
                   KD == VMul(K, Exp(VNeg(VMul(r, Item(t)))))
               IN  IF option_type = "put"
                   THEN Return(VAdd(VMul(VNeg(Item(S0)), NormCdf(VNeg(d1))),
                                    VMul(KD, NormCdf(VNeg(d2)))))
                   ELSE IF option_type = "call"
                   THEN Return(VSub(VMul(Item(S0), NormCdf(d1)), VMul(KD, NormCdf(d2))))
                   ELSE Raise("ValueError") :
            d \in {bs_d1(S0, K, sigma, t, r)}})

bs_delta(S0, K, sigma, t, r, option_type) ==
    Once({IF d.err # "none" THEN d
          ELSE IF option_type = "put" THEN Return(VSub(NormCdf(d.val), One))
          ELSE IF option_type = "call" THEN Return(NormCdf(d.val))
          ELSE Raise("ValueError") :
            d \in {bs_d1(S0, K, sigma, t, r)}})

\* b = (r - sigma**2 / 6) / 2, sigma2 being sigma**2 (lines 72, 97).
gao_b(sigma2, r) == VDiv(VSub(r, VDiv(sigma2, Num(6))), Num(2))

\* d1 of gao_price and gao_delta (lines 73, 98), or what the sigma**2 of b
\* and then S0/K raise.
gao_d1(S0, K, sigma, t, r) ==
    Once({IF sq.err # "none" THEN sq
          ELSE IF q.err # "none" THEN q
          ELSE Return(VDiv(VMul(Sqrt(Num(3)),
                                VAdd(Log(q.val),
                                     VMul(VAdd(gao_b(sq.val, r), VDiv(sq.val, Num(6))),
                                          Item(t)))),
                           VMul(Item(sigma), Sqrt(Item(t))))) :
            sq \in {Sq(sigma)}, q \in {Ratio(S0, K)}})

gao_price(S0, K, sigma, t, r, option_type) ==
    Once({IF d.err # "none" THEN d
          ELSE LET b == gao_b(Sq(sigma).val, r)
                   d1 == d.val
                   d2 == VSub(d1, VMul(Item(sigma), Sqrt(VDiv(Item(t), Num(3)))))
                   KD == VMul(K, Exp(VNeg(VMul(r, Item(t)))))
                   SD == VMul(Item(S0), Exp(VMul(VSub(b, r), Item(t))))
               IN  IF option_type = "put"
                   THEN Return(VSub(VMul(KD, NormCdf(VNeg(d2))), VMul(SD, NormCdf(VNeg(d1)))))
                   ELSE IF option_type = "call"
                   THEN Return(VSub(VMul(SD, NormCdf(d1)), VMul(KD, NormCdf(d2))))
                   ELSE Raise("ValueError") :
            d \in {gao_d1(S0, K, sigma, t, r)}})

gao_delta(S0, K, sigma, t, r, option_type) ==
    Once({IF d.err # "none" THEN d
          ELSE LET D == Exp(VMul(VSub(gao_b(Sq(sigma).val, r), r), Item(t)))
               IN  IF option_type = "put" THEN Return(VMul(D, VSub(NormCdf(d.val), One)))
                   ELSE IF option_type = "call" THEN Return(VMul(D, NormCdf(d.val)))
                   ELSE Raise("ValueError") :
            d \in {gao_d1(S0, K, sigma, t, r)}})

CallPricer(f, a) ==
    IF f = "bs_price" THEN bs_price(a.S0, a.K, a.sigma, a.t, a.r, a.option_type)
    ELSE IF f = "bs_delta" THEN bs_delta(a.S0, a.K, a.sigma, a.t, a.r, a.option_type)
    ELSE IF f = "gao_price" THEN gao_price(a.S0, a.K, a.sigma, a.t, a.r, a.option_type)
    ELSE gao_delta(a.S0, a.K, a.sigma, a.t, a.r, a.option_type)

\* ---------------------------------------------------------- path generator
\* np.cumsum, entry j >= 1 (np.sum for j = Len(row)).
RECURSIVE CumSum(_, _)
CumSumOf(row, j) == IF j = 1 THEN row[1] ELSE VAdd(CumSum(row, j - 1), row[j])
CumSum(row0, j0) == Once({CumSumOf(row, j) : row \in {row0}, j \in {j0}})

\* What np.random.normal(size=(n_sims, n_steps)) and then, on line 176,
\* sigma**2 and t/n_steps raise.
GBM_error(sigma, n_sims, n_steps) ==
    IF n_sims < 0 \/ n_steps < 0 THEN "ValueError"
    ELSE IF Sq(sigma).err # "none" THEN Sq(sigma).err
    ELSE IF n_steps = 0 THEN "ZeroDivisionError"
    ELSE "none"

\* The number of normal variates np.random.normal draws.
GBM_draws(n_sims, n_steps) ==
    IF n_sims < 0 \/ n_steps < 0 THEN 0 ELSE n_sims * n_steps

NoiseMatrices(n_sims, n_steps) == [1..n_sims -> [1..n_steps -> NoiseVals]]

log_return(sigma, t, r, mu, n_steps, z) ==
    VAdd(VDiv(VMul(VSub(VAdd(mu, r), VMul(Sq(sigma).val, Half)), t), Num(n_steps)),
         VMul(VMul(sigma, Sqrt(VDiv(t, Num(n_steps)))), z))

\* The grid GBM_paths returns for n_sims >= 0, n_steps >= 1: row p is
\* S0 followed by S0*exp(cumsum(log_returns)).
GBM_paths(S0, sigma, t, r, mu, n_sims, n_steps, noise) ==
    [p \in 1..n_sims |->
        Once({<<S0>> \o [j \in 1..n_steps |-> VMul(S0, Exp(CumSum(log_returns, j)))] :
                log_returns \in {[j \in 1..n_steps |->
                                    log_return(sigma, t, r, mu, n_steps, noise[p][j])]}})]

\* ----------------------------------------------------------------- engines
\* np.mean of a row / np.exp(np.mean(np.log(row))).
Mean(row) == VDiv(CumSum(row, Len(row)), Num(Len(row)))
GMean(row) == Exp(Mean([j \in 1..Len(row) |-> Log(row[j])]))

\* np.std of a row: the root of the mean of the squared deviations from
\* the mean.
Deviations(row, mean) == [j \in 1..Len(row) |-> VSub(row[j], mean)]
Std(row) ==
    Once({Sqrt(Mean(sq)) :
            sq \in {[j \in 1..Len(row) |-> VMul(VAbs(d[j]), VAbs(d[j]))] :
                        d \in {Deviations(row, Mean(row))}}})

\* The return of monte_carlo_european for the per-path values x (lines
\* 214-217, 239-242): x itself, or its mean and standard error.
EuropeanReturn(x, n_sims, return_distribution) ==
    IF return_distribution THEN [kind |-> "array", val |-> x]
    ELSE [kind |-> "pair", val |-> <<Mean(x), VDiv(Std(x), Sqrt(Num(n_sims)))>>]

\* The return of monte_carlo_asian (lines 332-335): x itself, or its mean.
AsianReturn(x, return_distribution) ==
    IF return_distribution THEN [kind |-> "array", val |-> x]
    ELSE [kind |-> "float", val |-> Mean(x)]

\* The average the Asian payoff is taken on (lines 320-323, 358-361).
AsianAverage(row, geometric) == IF geometric THEN GMean(row) ELSE Mean(row)

\* Payoff with the else branch falling through instead of raising.
Payoff_FallThrough(S, K, option_type) ==
    IF option_type = "call" THEN Return(Maximum0(VSub(S, K)))
    ELSE IF option_type = "put" THEN Return(Maximum0(VSub(K, S)))
    ELSE Return(NaN)

\* The if/elif/else on option_type of the engines: the payoff, or the raise.
Payoff(S, K, option_type) ==
    IF option_type = "call" THEN Return(Maximum0(VSub(S, K)))
    ELSE IF option_type = "put" THEN Return(Maximum0(VSub(K, S)))
    ELSE Raise("ValueError")

Last(row) == row[Len(row)]

\* times = np.linspace(0, t, n_hedges + 1), entry j (from 0): j*step + 0,
\* and t itself at the end.
Times(t, n_hedges, j) ==
    IF j = n_hedges THEN t ELSE VAdd(VMul(Num(j), VDiv(t, Num(n_hedges))), Zero)

\* n_steps handed to GBM_paths by monte_carlo_european (lines 204, 220).
EuropeanSteps(n_hedges) == IF n_hedges = 0 THEN 1 ELSE n_hedges

\* The discounted stock profit of hedge j >= 1 of one row (lines 232-235).
StockProfit(a, row, j) ==
    LET n == a.n_steps
        delta == bs_delta(Np(row[j]), a.K, a.sigma, Np(VSub(a.t, Times(a.t, n, j - 1))),
                          a.r, a.option_type).val
        growth == Exp(VDiv(VMul(a.r, a.t), Num(n)))
        disc == Exp(VNeg(VMul(a.r, Times(a.t, n, j))))
    IN  VMul(VMul(VSub(row[j + 1], VMul(row[j], growth)), disc), delta)

\* np.sum of the profits of the hedges 1..j of one row (line 237).
RECURSIVE HedgeProfit(_, _, _)
HedgeProfit(a, row, j) ==
    IF j = 1 THEN StockProfit(a, row, 1)
    ELSE VAdd(HedgeProfit(a, row, j - 1), StockProfit(a, row, j))

\* monte_carlo_european without the discount factor on the payoff.
monte_carlo_european_Undiscounted(a, row) ==
    LET payoff_T == Payoff(Last(row), a.K, a.option_type).val
    IN  IF a.n_steps = 0 THEN payoff_T
        ELSE VSub(payoff_T, HedgeProfit(a, row, a.n_steps))

\* discounted_payoff (n_hedges = 0) or profit_with_hedging of
\* monte_carlo_european for one row of the grid, the option type being valid.
monte_carlo_european(a, row) ==
    LET discounted_payoff ==
            VMul(Exp(VNeg(VMul(a.r, a.t))), Payoff(Last(row), a.K, a.option_type).val)
    IN  IF a.n_steps = 0 THEN discounted_payoff
        ELSE VSub(discounted_payoff, HedgeProfit(a, row, a.n_steps))

\* discounted_payoff of monte_carlo_asian for one row.
monte_carlo_asian(a, S) ==
    VMul(Exp(VNeg(VMul(a.r, a.t))), Payoff(S, a.K, a.option_type).val)

\* tau = t - (i + 1) * dt in floating point: the exact value, plus the
\* rounding residue where the exact value is 0.
Tau(a, dt, i, rnd) ==
    VAdd(VSub(a.t, VMul(Num(i + 1), dt)),
         IF i + 1 = a.n_steps THEN VMul(Num(rnd), Ulp) ELSE Zero)

\* The initial delta (lines 274, 371), or what the pricer raises.
InitialDelta(f, a) ==
    IF f = "mc_eur_sf_hedged"
    THEN bs_delta(a.S0, a.K, a.sigma, a.t, a.r, a.option_type)
    ELSE gao_delta(a.S0, a.K, a.sigma, a.t, a.r, a.option_type)

\* UpdateG with the weights one step behind: (i*log(G) + log(S_next))/(i+1).
UpdateG_StaleWeights(G, S_next, i) ==
    Exp(VDiv(VAdd(VMul(Num(i), Log(G)), Log(S_next)), Num(i + 1)))

\* G <- exp(((i+1)*log(G) + log(S_next))/(i+2)) (line 388).
UpdateG(G, S_next, i) ==
    Exp(VDiv(VAdd(VMul(Num(i + 1), Log(G)), Log(S_next)), Num(i + 2)))

\* new_Delta of mc_eur_sf_hedged (lines 289-290).
EurNewDelta(a, dt, i, S_next, rnd) ==
    bs_delta(Np(S_next), a.K, a.sigma, Tau(a, dt, i, rnd), a.r, a.option_type).val

\* new_Delta of mc_asian_sf_hedged (lines 391-396), G already updated.
AsianNewDelta(a, dt, i, S_next, G, rnd) ==
    Once({Once({VMul(VMul(w, VDiv(S_eff, S_next)),
                     gao_delta(Np(S_eff), a.K, Np(sigma_eff), tau, a.r, a.option_type).val) :
                    S_eff \in {VMul(G, Power(VDiv(S_next, G), w))},
                    sigma_eff \in {VMul(a.sigma, Sqrt(VDiv(w, Num(3))))},
                    tau \in {Tau(a, dt, i, rnd)}}) :
            w \in {VSub(One, Rat(i + 1, a.n_steps))}})

\* A loop that advances by two.
NextIndex_Skip(i) == i + 2

\* The index the for loop hands out after i.
NextIndex(i) == i + 1

\* ------------------------------------------------------------------- state
VARIABLES
    fn,       \* the function called
    arg,      \* its arguments
    pc,       \* "call", "dt", "paths", "payoff", "stepping", "done", "error"
    err,      \* the exception raised, "none" while there is none
    draws,    \* normal variates consumed from the process-wide generator
    noise,    \* the variates np.random.normal returned
    paths,    \* the grid GBM_paths returned, row by row
    S,        \* per path: the price the payoff is taken on
    payoff,   \* per path
    Delta,    \* per path: the hedge ratio
    B,        \* per path: the bond position
    V,        \* per path: the portfolio value
    G,        \* per path: the running geometric average (Asian engine)
    i,        \* the next index of the hedging loop
    steps,    \* the loop indices executed so far, in order
    result    \* what the call returned

vars == <<fn, arg, pc, err, draws, noise, paths, S, payoff, Delta, B, V, G, i, steps, result>>

NoResult == [kind |-> "unset", val |-> <<>>]
Value(k, v) == [kind |-> k, val |-> v]

Rows == 1..arg.n_sims

Init ==
    /\ fn \in Functions
    /\ arg \in Calls(fn)
    /\ pc = "call"
    /\ err = "none"
    /\ draws = 0
    /\ noise = <<>>
    /\ paths = <<>>
    /\ S = <<>>
    /\ payoff = <<>>
    /\ Delta = <<>>
    /\ B = <<>>
    /\ V = <<>>
    /\ G = <<>>
    /\ i = 0
    /\ steps = <<>>
    /\ result = NoResult

\* bs_price, bs_delta, gao_price, gao_delta called directly.
Pricer ==
    /\ pc = "call"
    /\ fn \in Pricers
    /\ LET out == CallPricer(fn, arg)
       IN  IF out.err = "none"
           THEN pc' = "done" /\ err' = err /\ result' = Value("float", out.val)
           ELSE pc' = "error" /\ err' = out.err /\ result' = result
    /\ UNCHANGED <<fn, arg, draws, noise, paths, S, payoff, Delta, B, V, G, i, steps>>

\* GBM_paths called directly (lines 175-179).
GBMDirect ==
    /\ pc = "call"
    /\ fn = "GBM_paths"
    /\ draws' = draws + GBM_draws(arg.n_sims, arg.n_steps)
    /\ IF GBM_error(arg.sigma, arg.n_sims, arg.n_steps) # "none"
       THEN /\ pc' = "error"
            /\ err' = GBM_error(arg.sigma, arg.n_sims, arg.n_steps)
            /\ UNCHANGED <<noise, paths, result>>
       ELSE \E z \in NoiseMatrices(arg.n_sims, arg.n_steps) :
               /\ noise' = z
               /\ paths' = GBM_paths(arg.S0, arg.sigma, arg.t, arg.r, arg.mu,
                                     arg.n_sims, arg.n_steps, z)
               /\ result' = Value("grid", paths')
               /\ pc' = "done"
               /\ err' = err
    /\ UNCHANGED <<fn, arg, S, payoff, Delta, B, V, G, i, steps>>

\* dt = t / n_steps of the self-financing engines (lines 261, 354).
ComputeDt ==
    /\ pc = "call"
    /\ fn \in SFEngines
    /\ IF arg.n_steps = 0
       THEN pc' = "error" /\ err' = "ZeroDivisionError"
       ELSE pc' = "dt" /\ err' = err
    /\ UNCHANGED <<fn, arg, draws, noise, paths, S, payoff, Delta, B, V, G, i, steps, result>>

\* The engines' call of GBM_paths (lines 204, 220, 263, 319, 356).
GeneratePaths ==
    /\ \/ pc = "call" /\ fn \in Engines \ SFEngines
       \/ pc = "dt"
    /\ LET n_steps == IF fn = "monte_carlo_european"
                      THEN EuropeanSteps(arg.n_steps) ELSE arg.n_steps
       IN  /\ draws' = draws + GBM_draws(arg.n_sims, n_steps)
           /\ IF GBM_error(arg.sigma, arg.n_sims, n_steps) # "none"
              THEN /\ pc' = "error"
                   /\ err' = GBM_error(arg.sigma, arg.n_sims, n_steps)
                   /\ UNCHANGED <<noise, paths>>
              ELSE \E z \in NoiseMatrices(arg.n_sims, n_steps) :
                      /\ noise' = z
                      /\ paths' = GBM_paths(arg.S0, arg.sigma, arg.t, arg.r, arg.mu,
                                            arg.n_sims, n_steps, z)
                      /\ pc' = "paths"
                      /\ err' = err
    /\ UNCHANGED <<fn, arg, S, payoff, Delta, B, V, G, i, steps, result>>

\* The price the payoff is taken on, then the payoff or the raise
\* (lines 205-212, 221-228, 264-271, 320-330, 358-368).
ComputePayoff ==
    /\ pc = "paths"
    /\ S' = [p \in Rows |->
                IF fn \in {"monte_carlo_asian", "mc_asian_sf_hedged"}
                THEN AsianAverage(paths[p], arg.geometric)
                ELSE Last(paths[p])]
    /\ IF Payoff(arg.S0, arg.K, arg.option_type).err # "none"
       THEN /\ pc' = "error"
            /\ err' = Payoff(arg.S0, arg.K, arg.option_type).err
            /\ payoff' = payoff
       ELSE /\ pc' = "payoff"
            /\ err' = err
            /\ payoff' = [p \in Rows |-> Payoff(S'[p], arg.K, arg.option_type).val]
    /\ UNCHANGED <<fn, arg, draws, noise, paths, Delta, B, V, G, i, steps, result>>

\* The return of monte_carlo_european (lines 214-217, 230-242) and of
\* monte_carlo_asian (lines 332-335).
ReturnMC ==
    /\ pc = "payoff"
    /\ fn \in Engines \ SFEngines
    /\ result' =
          IF fn = "monte_carlo_european"
          THEN Once({EuropeanReturn(x, arg.n_sims, arg.return_distribution) :
                       x \in {[p \in Rows |-> monte_carlo_european(arg, paths[p])]}})
          ELSE Once({AsianReturn(x, arg.return_distribution) :
                       x \in {[p \in Rows |-> monte_carlo_asian(arg, S[p])]}})
    /\ pc' = "done"
    /\ UNCHANGED <<fn, arg, err, draws, noise, paths, S, payoff, Delta, B, V, G, i, steps>>

\* Initial delta and bond position (lines 273-276, 370-376), or the raise
\* of the pricer.
InitHedge ==
    /\ pc = "payoff"
    /\ fn \in SFEngines
    /\ \E Delta0 \in {InitialDelta(fn, arg)} :
          IF Delta0.err # "none"
          THEN /\ pc' = "error"
               /\ err' = Delta0.err
               /\ UNCHANGED <<Delta, V, B, G, i>>
          ELSE /\ Delta' = [p \in Rows |-> Delta0.val]
               /\ V' = [p \in Rows |-> arg.premium]
               /\ B' = [p \in Rows |-> VSub(V'[p], VMul(Delta'[p], arg.S0))]
               /\ G' = IF fn = "mc_asian_sf_hedged" THEN [p \in Rows |-> arg.S0] ELSE G
               /\ i' = 0
               /\ pc' = "stepping"
               /\ err' = err
    /\ UNCHANGED <<fn, arg, draws, noise, paths, S, payoff, steps, result>>

\* One pass of the hedging loop (lines 279-296, 378-402).
Step ==
    /\ pc = "stepping"
    /\ i < arg.n_steps
    /\ \E dt \in {VDiv(arg.t, Num(arg.n_steps))} :
       \E S_next \in {[p \in Rows |-> paths[p][i + 2]]} :
       \E accrued \in {[p \in Rows |-> VMul(B[p], Exp(VMul(arg.r, dt)))]} :
       \E newG \in {IF fn = "mc_asian_sf_hedged"
                     THEN [p \in Rows |-> UpdateG(G[p], S_next[p], i)]
                     ELSE G} :
       \E rnd \in (IF i + 1 = arg.n_steps THEN Residues ELSE {0}) :
       \E new_Delta \in {[p \in Rows |->
                             IF fn = "mc_eur_sf_hedged"
                             THEN EurNewDelta(arg, dt, i, S_next[p], rnd)
                             ELSE AsianNewDelta(arg, dt, i, S_next[p], newG[p], rnd)]} :
           /\ V' = [p \in Rows |-> VAdd(VMul(Delta[p], S_next[p]), accrued[p])]
           /\ G' = newG
           /\ B' = [p \in Rows |->
                       VSub(accrued[p], VMul(VSub(new_Delta[p], Delta[p]), S_next[p]))]
           /\ Delta' = new_Delta
    /\ steps' = Append(steps, i)
    /\ i' = NextIndex(i)
    /\ UNCHANGED <<fn, arg, pc, err, draws, noise, paths, S, payoff, result>>

\* After the loop: the terminal value and the discounted profit
\* (lines 298-300, 404-406).
Terminal ==
    /\ pc = "stepping"
    /\ i >= arg.n_steps
    /\ V' = [p \in Rows |-> VAdd(VMul(Delta[p], Last(paths[p])), B[p])]
    /\ result' = Value("array",
                       [p \in Rows |->
                           VMul(VSub(V'[p], payoff[p]), Exp(VNeg(VMul(arg.r, arg.t))))])
    /\ pc' = "done"
    /\ UNCHANGED <<fn, arg, err, draws, noise, paths, S, payoff, Delta, B, G, i, steps>>

Next ==
    \/ Pricer
    \/ GBMDirect
    \/ ComputeDt
    \/ GeneratePaths
    \/ ComputePayoff
    \/ ReturnMC
    \/ InitHedge
    \/ Step
    \/ Terminal

Spec == Init /\ [][Next]_vars

\* The calls run to their end: single-threaded, synchronous code.
FairSpec == Spec /\ WF_vars(Next)

\* ------------------------------------------------------------------ claims
Ended == pc \in {"done", "error"}
InvalidType == arg.option_type \notin ValidTypes
Columns(row, k) == SubSeq(row, 1, k)

\* Equal up to the rounding of the floats: both numbers, and no further
\* apart than Tolerance times the scale of the values they are built from.
Tolerance == Rat(1, 256)
CloseOf(a, b, scale) ==
    /\ IsFinite(a) /\ IsFinite(b)
    /\ ~VLt(VMul(Tolerance, VAbs(scale)), VAbs(VSub(a, b)))
Close(a0, b0, scale0) == Once({CloseOf(a, b, scale) : a \in {a0}, b \in {b0}, scale \in {scale0}})

\* C1: in mc_asian_sf_hedged, after the loop has run i passes the running
\* geometric average G of every path is the geometric mean of the path's
\* columns 0..i; after the last pass it is the geometric mean of the whole
\* path of n_steps+1 prices.
C1_RunningGeometricMean ==
    (fn = "mc_asian_sf_hedged" /\ pc \in {"stepping", "done"}) =>
        /\ \A p \in Rows : Close(G[p], GMean(Columns(paths[p], i + 1)), G[p])
        /\ pc = "done" => \A p \in Rows : Close(G[p], GMean(paths[p]), G[p])

C1_Witness ==
    /\ fn = "mc_asian_sf_hedged"
    /\ pc = "done"
    /\ arg.n_steps >= 2
    /\ \E p \in Rows : ~Close(G[p], arg.S0, G[p]) /\ ~Close(G[p], Last(paths[p]), G[p])

\* C2: with n_steps = 1 the price the Asian hedge engine takes the payoff on
\* is the terminal price S_1 of the path, and the payoff is the vanilla
\* European payoff on S_1 (arithmetic and geometric, call and put).
C2_SingleStepIsVanilla ==
    (fn = "mc_asian_sf_hedged" /\ arg.n_steps = 1 /\ pc \in {"payoff", "stepping", "done"}) =>
        \A p \in Rows :
            /\ Close(S[p], paths[p][2], S[p])
            /\ Close(payoff[p],
                     IF arg.option_type = "call"
                     THEN Maximum0(VSub(paths[p][2], arg.K))
                     ELSE Maximum0(VSub(arg.K, paths[p][2])),
                     arg.K)

\* C3: an engine called with an option type outside {call, put} raises
\* before any path is generated: no variate has been drawn when the call
\* ends in error.
C3_FailsBeforeAnyDraw ==
    (fn \in Engines /\ InvalidType /\ pc = "error") => (draws = 0 /\ paths = <<>>)

\* C4: GBM_paths raises, and returns no grid, whenever n_sims < 1,
\* n_steps < 1, t <= 0 or sigma < 0; otherwise it returns a grid.
InvalidParameter(a) ==
    \/ a.n_sims < 1
    \/ a.n_steps < 1
    \/ ~VLt(Zero, a.t)
    \/ VLt(a.sigma, Zero)

C4_InvalidParameterRaises ==
    (fn = "GBM_paths" /\ Ended) =>
        IF InvalidParameter(arg)
        THEN pc = "error" /\ result = NoResult
        ELSE pc = "done" /\ result.kind = "grid"

\* C5: with an option type outside {call, put}, no pricer and no engine
\* ever returns a value: the call gets no further than the type dispatch,
\* nothing is returned, and the call ends with an exception raised.
C5_InvalidTypeRaises ==
    /\ []((fn # "GBM_paths" /\ InvalidType) =>
            /\ pc \in {"call", "dt", "paths", "error"}
            /\ result = NoResult
            /\ pc = "error" <=> err # "none")
    /\ (fn # "GBM_paths" /\ InvalidType) ~> (pc = "error" /\ err # "none")

C5_Witness ==
    /\ fn = "mc_asian_sf_hedged"
    /\ InvalidType
    /\ pc = "error"
    /\ err = "ValueError"
    /\ paths # <<>>

\* C6: both self-financing engines run Initialized -> Stepping(0) -> ... ->
\* Stepping(n_steps-1) -> Terminal: the loop indices executed are exactly
\* 0, 1, ..., n_steps-1 in that order, the result is set only by the step
\* that follows the last pass, nothing changes after it, and every run
\* that has reached the loop reaches that end.
IndicesUpTo(k) == [j \in 1..k |-> j - 1]

SequentialStep ==
    fn \in SFEngines =>
        /\ (pc = "stepping" /\ pc' = "stepping") =>
                (i < arg.n_steps /\ steps' = Append(steps, i) /\ i' = i + 1)
        /\ result' # result => (pc = "stepping" /\ i = arg.n_steps /\ pc' = "done")
        /\ pc = "done" => UNCHANGED vars

C6_StateMachine ==
    /\ []((fn \in SFEngines /\ pc \in {"stepping", "done"}) =>
            /\ arg.n_steps >= 1
            /\ steps = IndicesUpTo(i)
            /\ i <= arg.n_steps
            /\ pc = "done" => steps = IndicesUpTo(arg.n_steps)
            /\ pc = "done" <=> result # NoResult)
    /\ [][SequentialStep]_vars
    /\ (fn \in SFEngines /\ pc = "stepping") ~> (pc = "done")

C6_Witness ==
    /\ fn \in SFEngines
    /\ pc = "done"
    /\ steps = <<0, 1>>
    /\ result.kind = "array"

\* The discounted terminal payoff of row p of the grid, no hedge term.
UnhedgedPayoff(p) ==
    VMul(Exp(VNeg(VMul(arg.r, arg.t))),
         IF arg.option_type = "call"
         THEN Maximum0(VSub(paths[p][2], arg.K))
         ELSE Maximum0(VSub(arg.K, paths[p][2])))

SingleStepGrid ==
    /\ Len(paths) = arg.n_sims
    /\ draws = arg.n_sims
    /\ \A p \in Rows : Len(paths[p]) = 2

\* C7: monte_carlo_european with n_hedges = 0 generates a grid of one step
\* (two columns), applies no hedge term, and returns per path
\* exp(-r*t)*max(S_T - K, 0) for a call, exp(-r*t)*max(K - S_T, 0) for a
\* put, S_T being the last column of the grid.
C7_UnhedgedEuropean ==
    (fn = "monte_carlo_european" /\ arg.n_steps = 0 /\ pc = "done") =>
        /\ SingleStepGrid
        /\ result.kind = "array"
        /\ Len(result.val) = arg.n_sims
        /\ \A p \in Rows : VEq(result.val[p], UnhedgedPayoff(p))

\* C7 as amended: monte_carlo_european with n_hedges = 0 generates a grid
\* of one step, applies no hedge term, and returns the per-path discounted
\* terminal payoffs when return_distribution is true, and the pair of
\* their mean and their standard deviation over sqrt(n_sims) when it is
\* false.
C7_UnhedgedEuropeanByMode ==
    (fn = "monte_carlo_european" /\ arg.n_steps = 0 /\ pc = "done") =>
        /\ SingleStepGrid
        /\ arg.return_distribution =>
                /\ result.kind = "array"
                /\ Len(result.val) = arg.n_sims
                /\ \A p \in Rows : VEq(result.val[p], UnhedgedPayoff(p))
        /\ ~arg.return_distribution =>
                /\ result.kind = "pair"
                /\ Len(result.val) = 2
                /\ VEq(result.val[1], Mean([p \in Rows |-> UnhedgedPayoff(p)]))
                /\ VEq(result.val[2],
                       VDiv(Std([p \in Rows |-> UnhedgedPayoff(p)]),
                            Sqrt(Num(arg.n_sims))))

C7_Witness ==
    /\ fn = "monte_carlo_european"
    /\ arg.n_steps = 0
    /\ pc = "done"
    /\ arg.r # Zero
    /\ ~arg.return_distribution
    /\ arg.n_sims >= 2
    /\ VLt(Zero, result.val[1])
    /\ VLt(Zero, result.val[2])

\* The shape and the recurrence of the grid a direct call returned.
GridIsGeometricWalk ==
    /\ Len(result.val) = arg.n_sims
    /\ \A p \in 1..arg.n_sims :
        LET row == result.val[p]
        IN  /\ Len(row) = arg.n_steps + 1
            /\ row[1] = arg.S0
            /\ \A j \in 1..arg.n_steps :
                LET growth == Exp(log_return(arg.sigma, arg.t, arg.r, arg.mu,
                                             arg.n_steps, noise[p][j]))
                IN  /\ VLt(Zero, growth)
                    /\ Close(row[j + 1], VMul(row[j], growth), row[j + 1])
                    /\ VLt(Zero, row[j + 1])

\* C8: for all n_sims >= 1 and n_steps >= 1 the grid GBM_paths returns has
\* n_sims rows and n_steps+1 columns, column 0 is S0 in every row, and
\* column j+1 is column j times that step's growth factor exp(log_return),
\* which is > 0; so every entry is > 0, S0 being > 0.
C8_GridShape ==
    (fn = "GBM_paths" /\ pc = "done" /\ arg.n_sims >= 1 /\ arg.n_steps >= 1) =>
        GridIsGeometricWalk

\* What C8 leaves of the code: the same for t >= 0, where sqrt(t/n_steps)
\* is a number, and |sigma| <= 1, where exp does not underflow.
GridShapeOnModerateInputs ==
    (fn = "GBM_paths" /\ pc = "done" /\ arg.n_sims >= 1 /\ arg.n_steps >= 1
        /\ ~VLt(arg.t, Zero) /\ ~VLt(One, VAbs(arg.sigma))) =>
        GridIsGeometricWalk

\* The scale of the values a portfolio of path p is built from.
ValueScale(p) == VAdd(arg.premium, VAdd(arg.K, Last(paths[p])))

\* C9: both self-financing engines are self-financing at every step: the
\* initial portfolio Delta0*S0 + B0 is worth the premium, each rebalance
\* leaves Delta*S_next + B at the value V taken before it, and the value
\* computed after the loop is the value computed before the last rebalance.
ValuePreserved ==
    fn \in SFEngines =>
        /\ (pc = "payoff" /\ pc' = "stepping") =>
                \A p \in Rows :
                    Close(VAdd(VMul(Delta'[p], arg.S0), B'[p]), arg.premium, ValueScale(p))
        /\ (pc = "stepping" /\ pc' = "stepping") =>
                \A p \in Rows :
                    Close(VAdd(VMul(Delta'[p], paths[p][i + 2]), B'[p]), V'[p], ValueScale(p))
        /\ (pc = "stepping" /\ pc' = "done") =>
                \A p \in Rows : Close(V'[p], V[p], ValueScale(p))

C9_SelfFinancing == [][ValuePreserved]_vars

\* The last new delta of every path is a number (not NaN).
LastDeltaIsNumber == \A p \in Rows : ~IsNaN(Delta[p])

\* What C9 leaves of the code: the rebalance preserves the value whenever
\* the new delta is a number.
ValuePreservedWhenDeltaIsNumber ==
    fn \in SFEngines =>
        /\ (pc = "stepping" /\ pc' = "stepping" /\ LastDeltaIsNumber') =>
                \A p \in Rows :
                    Close(VAdd(VMul(Delta'[p], paths[p][i + 2]), B'[p]), V'[p], ValueScale(p))
        /\ (pc = "stepping" /\ pc' = "done" /\ LastDeltaIsNumber) =>
                \A p \in Rows : Close(V'[p], V[p], ValueScale(p))

SelfFinancingWhenDeltaIsNumber == [][ValuePreservedWhenDeltaIsNumber]_vars

\* C10: on the same path, with n_hedges = n_steps >= 1, the result of
\* mc_eur_sf_hedged is the premium minus the result of
\* monte_carlo_european; the delta of the last step does not enter it.
C10_StepwiseEqualsVectorized ==
    (fn = "mc_eur_sf_hedged" /\ pc = "done") =>
        \A p \in Rows :
            Close(result.val[p], VSub(arg.premium, monte_carlo_european(arg, paths[p])),
                  ValueScale(p))

\* What C10 leaves of the code: the two agree whenever the delta of the
\* last step is a number.
EquivalenceWhenDeltaIsNumber ==
    (fn = "mc_eur_sf_hedged" /\ pc = "done" /\ LastDeltaIsNumber) =>
        \A p \in Rows :
            Close(result.val[p], VSub(arg.premium, monte_carlo_european(arg, paths[p])),
                  ValueScale(p))
====
